---- MODULE Spec2Model ----
(***************************************************************************)
(* Model of the presigned-upload gateway of the serverless ETL pipeline:   *)
(* src/src/lambda/create-presigned-urls.py (lambda_handler,                *)
(* create_presigned_post, start_generic_glue_workflow).                    *)
(*                                                                         *)
(* Every gateway request is served by its own invocation of                *)
(* lambda_handler; invocations run in parallel and interleave at the       *)
(* calls they make to the storage credential issuer and to the workflow    *)
(* orchestrator.  Python values are modelled as follows:                   *)
(*   str            a TLA+ string                                          *)
(*   None / value   OptNone / Some(v)                                      *)
(*   dict of query  a function from the present parameter names to strings *)
(*   dict (JSON)    Obj(<<[k, v], ...>>) in insertion order; a JSON string *)
(*                  is Str(s)                                              *)
(***************************************************************************)
EXTENDS Integers, Sequences, FiniteSets, TLC

(***************************************************************************)
(* Bounds of the model.                                                    *)
(***************************************************************************)
\* number of gateway invocations that may run in parallel
NumInvocations == 2

Invocations == 1..NumInvocations

(***************************************************************************)
(* Python values.                                                          *)
(***************************************************************************)
OptNone == [some |-> FALSE, val |-> ""]
Some(v) == [some |-> TRUE, val |-> v]

\* truth value of an optional string: None and "" are falsy
Truthy(o) == o.some /\ o.val # ""

\* how an f-string renders an optional string: None is rendered "None"
Format(o) == IF o.some THEN o.val ELSE "None"

Str(s) == [t |-> "str", s |-> s]
Obj(items) == [t |-> "obj", items |-> items]
Item(k, v) == [k |-> k, v |-> v]

\* `k in d`
HasKey(d, k) == \E n \in 1..Len(d.items) : d.items[n].k = k

\* d[k] for a key that is present
Lookup(d, k) == d.items[CHOOSE n \in 1..Len(d.items) : d.items[n].k = k].v

RECURSIVE JsonDumps(_)
RECURSIVE JsonItems(_, _)
\* json.dumps with its default separators, for strings that need no escape
JsonDumps(v) ==
    IF v.t = "str"
    THEN "\"" \o v.s \o "\""
    ELSE "{" \o JsonItems(v.items, 1) \o "}"
JsonItems(items, n) ==
    IF n > Len(items)
    THEN ""
    ELSE (IF n > 1 THEN ", " ELSE "")
         \o "\"" \o items[n].k \o "\": " \o JsonDumps(items[n].v)
         \o JsonItems(items, n + 1)

(***************************************************************************)
(* Module-level names and configuration.                                   *)
(***************************************************************************)
\* the names bound at module level by the imports and definitions
ModuleGlobals ==
    {"json", "os", "boto3", "ClientError", "Dict", "Any",
     "S3_BUCKET_PLACEHOLDER", "GLUE_WORKFLOW_PLACEHOLDER", "AWS_REGION",
     "create_presigned_post", "start_generic_glue_workflow", "lambda_handler"}

\* a global name evaluates only if it is bound; otherwise NameError is raised
NameResolves(name) == name \in ModuleGlobals

S3_BUCKET_PLACEHOLDER == "your-etl-landing-zone"
GLUE_WORKFLOW_PLACEHOLDER == "data_ingestion_workflow"

\* default of create_presigned_post's expiration parameter
DefaultExpiration == 300

(***************************************************************************)
(* Inbound events.  An event is a dict that may lack the key               *)
(* queryStringParameters, hold None under it (what the HTTP gateway sends  *)
(* for a request without a query string), or hold the dict of the query    *)
(* parameters that are present.                                            *)
(***************************************************************************)
Absent == <<>>
Present(v) == <<v>>

EmptyDict == <<>>
Entry(name, choice) == IF choice = Absent THEN EmptyDict ELSE name :> choice[1]

\* the query dicts over the given choices of s3, file_name, gestionale and
\* last_file
QueryDicts(T, F, G, L) ==
    { Entry("s3", t) @@ Entry("file_name", f) @@ Entry("gestionale", g)
        @@ Entry("last_file", l) : t \in T, f \in F, g \in G, l \in L }

NoneDict == [some |-> FALSE, val |-> EmptyDict]

\* the events of the specification Spec: every way file_name and last_file
\* can be given, with and without a tenant, for one source system
TenantChoices == {Absent, Present("A")}
FileNameChoices == {Absent, Present(""), Present("f.csv")}
SourceChoices == {Present("C")}
LastFileChoices == {Absent, Present("True"), Present("False"), Present("true")}

Events ==
    {EmptyDict, "queryStringParameters" :> NoneDict}
        \cup { "queryStringParameters" :> Some(q) :
                 q \in QueryDicts(TenantChoices, FileNameChoices,
                                  SourceChoices, LastFileChoices) }

\* the events of the specification SpecRouting: requests with a file_name,
\* with and without tenant and source system, and with tenants and source
\* systems whose names hold the separator the key is built with (the client
\* sends gestionale=<name>/raw_data)
RoutingTenantChoices == {Absent, Present("A"), Present("A/raw_data/B")}
RoutingSourceChoices == {Absent, Present("C"), Present("B/raw_data/C")}

RoutingEvents ==
    { "queryStringParameters" :> Some(q) :
        q \in QueryDicts(RoutingTenantChoices, {Present("f.csv")},
                         RoutingSourceChoices, {Absent, Present("True")}) }

NoEvent == "no_event" :> NoneDict

\* dict.get(k) and dict.get(k, default)
DictGet(d, k) == IF k \in DOMAIN d THEN Some(d[k]) ELSE OptNone
DictGetDefault(d, k, default) == IF k \in DOMAIN d THEN d[k] ELSE default

\* event.get('queryStringParameters', {})
EventQueryParams(ev) ==
    IF "queryStringParameters" \in DOMAIN ev
    THEN ev["queryStringParameters"]
    ELSE Some(EmptyDict)

(***************************************************************************)
(* lambda_handler's locals, as functions of the query parameters.          *)
(***************************************************************************)
ClientIdUuid(qp) == DictGetDefault(qp, "s3", "CLIENT_ID_MISSING")
FileName(qp) == DictGet(qp, "file_name")
FileSource(qp) == DictGetDefault(qp, "gestionale", "DEFAULT_SOURCE")
LastFileFlag(qp) == DictGetDefault(qp, "last_file", "False")

\* the key with the source system and the tenant exchanged
ObjectKey_SourceFirst(client_id_uuid, file_source, file_name) ==
    file_source \o "/raw_data/" \o client_id_uuid \o "/" \o Format(file_name)

\* key = f'{client_id_uuid}/raw_data/{file_source}/{file_name}'
ObjectKey(client_id_uuid, file_source, file_name) ==
    client_id_uuid \o "/raw_data/" \o file_source \o "/" \o Format(file_name)

\* `if file_name is None`: an empty file_name passes
MissingFileName_OnlyNone(file_name) == ~file_name.some

\* `if not file_name`
MissingFileName(file_name) == ~Truthy(file_name)

\* the test looks for a key create_presigned_post never sets
IssuanceFailed_WrongKey(presigned) == HasKey(presigned, "errors")

\* `if "error" in presigned_response`
IssuanceFailed(presigned) == HasKey(presigned, "error")

\* the flag compared without regard to case
IsLastFile_AnyCase(last_file_flag) == last_file_flag \in {"True", "true"}

\* `if last_file_flag == 'True'`
IsLastFile(last_file_flag) == last_file_flag = "True"

(***************************************************************************)
(* Responses of lambda_handler.                                            *)
(***************************************************************************)
MessageBody(text) == JsonDumps(Obj(<<Item("message", Str(text))>>))

MissingFileNameResponse ==
    [statusCode |-> 400, body |-> MessageBody("Missing file_name parameter.")]

UploadUrlFailedResponse ==
    [statusCode |-> 500, body |-> MessageBody("Failed to generate upload URL.")]

InternalErrorResponse ==
    [statusCode |-> 500,
     body |-> MessageBody("Internal Server Error - Check CloudWatch")]

SuccessResponse(presigned) ==
    [statusCode |-> 200,
     headers |-> [ContentType |-> "application/json",
                  AccessControlAllowOrigin |-> "*"],
     body |-> JsonDumps(presigned)]

NoResponse == [statusCode |-> 0, body |-> ""]

(***************************************************************************)
(* The storage credential issuer (s3_client.generate_presigned_post) and   *)
(* create_presigned_post.                                                  *)
(***************************************************************************)
\* ok: the issuer returns a credential; ClientError: it rejects the
\* request; Exception: the call raises anything that is not a ClientError
IssuerOutcomes == {"ok", "ClientError", "Exception"}

\* the bucket name put into the key as well
PresignedPostRequest_BucketInKey(bucket_name, object_key, expiration) ==
    [Bucket |-> bucket_name, Key |-> bucket_name \o "/" \o object_key,
     ExpiresIn |-> expiration]

\* the request create_presigned_post sends to the issuer
PresignedPostRequest(bucket_name, object_key, expiration) ==
    [Bucket |-> bucket_name, Key |-> object_key, ExpiresIn |-> expiration]

\* what the issuer returns for a request it accepts: the upload url of the
\* bucket and the form fields, with the key the credential is signed for
GeneratePresignedPost(req) ==
    Obj(<<Item("url", Str("https://" \o req.Bucket \o ".s3.amazonaws.com/")),
          Item("fields", Obj(<<Item("key", Str(req.Key))>>))>>)

\* the issuer's rejection reported under "message" instead of "error"
CreatePresignedPost_MessageKey(bucket_name, object_key, expiration, outcome) ==
    IF outcome = "ClientError"
    THEN Obj(<<Item("message", Str("ClientError"))>>)
    ELSE GeneratePresignedPost(
             [Bucket |-> bucket_name, Key |-> object_key,
              ExpiresIn |-> expiration])

\* the value create_presigned_post returns when the issuer did not raise
\* anything but ClientError
CreatePresignedPost(bucket_name, object_key, expiration, outcome) ==
    IF outcome = "ClientError"
    THEN Obj(<<Item("error", Str("ClientError"))>>)
    ELSE GeneratePresignedPost(
             PresignedPostRequest(bucket_name, object_key, expiration))

NoPresigned == Obj(<<>>)

(***************************************************************************)
(* State.                                                                  *)
(***************************************************************************)
VARIABLES
    pc,                  \* where each invocation of lambda_handler stands
    event,               \* the event each invocation was given
    presigned_response,  \* lambda_handler's local of that name
    calls,               \* per invocation, the calls it has made, in order
    response,            \* what each invocation returned
    \* the client, src/src/client/send_file.py
    client_pc,           \* where the run of send_files_to_api stands
    folder_exists,       \* whether FOLDER_PATH exists
    local_files,         \* the files in FOLDER_PATH
    requests_sent,       \* the gateway requests the run has sent, in order
    uploads,             \* the storage uploads the run has made, in order
    removed,             \* the local files the run has removed, in order
    \* the export job, manage_clean_onedrive_sync.py
    sync_pc,             \* where the run of process_clean_files stands
    bucket_keys,         \* the keys of the objects in the bucket
    files,               \* process_clean_files' local of that name
    file_index,          \* the position of its loop in files
    sync_ops             \* the calls the run has made, in order

gatewayVars == <<pc, event, presigned_response, calls, response>>
clientVars ==
    <<client_pc, folder_exists, local_files, requests_sent, uploads, removed>>
syncVars == <<sync_pc, bucket_keys, files, file_index, sync_ops>>

vars == <<gatewayVars, clientVars, syncVars>>

\* no invocation of lambda_handler has started
GatewayInit ==
    /\ pc = [i \in Invocations |-> "idle"]
    /\ event = [i \in Invocations |-> NoEvent]
    /\ presigned_response = [i \in Invocations |-> NoPresigned]
    /\ calls = [i \in Invocations |-> <<>>]
    /\ response = [i \in Invocations |-> NoResponse]

\* the client is not run: nothing to upload, nothing sent
ClientAbsent ==
    /\ client_pc = "idle"
    /\ folder_exists = FALSE
    /\ local_files = {}
    /\ requests_sent = <<>>
    /\ uploads = <<>>
    /\ removed = <<>>

\* the export job is not run, the bucket holds nothing for it
SyncAbsent ==
    /\ sync_pc = "idle"
    /\ bucket_keys = {}
    /\ files = <<>>
    /\ file_index = 0
    /\ sync_ops = <<>>

Init == GatewayInit /\ ClientAbsent /\ SyncAbsent

\* lambda_handler returns r
Return(i, r) ==
    /\ pc' = [pc EXCEPT ![i] = "done"]
    /\ response' = [response EXCEPT ![i] = r]

\* the calls of one kind an invocation has made
CallsOf(i, op) == SelectSeq(calls[i], LAMBDA c : c.op = op)

(***************************************************************************)
(* lambda_handler, lines 57-71: read the query parameters, build the key,  *)
(* validate.  None under queryStringParameters makes query_params.get      *)
(* raise AttributeError, which the handler's except clause turns into the  *)
(* internal-error response.                                                *)
(***************************************************************************)
Validate(i, ev) ==
    /\ pc[i] = "idle"
    /\ event' = [event EXCEPT ![i] = ev]
    /\ LET query_params == EventQueryParams(ev) IN
         IF ~query_params.some
         THEN Return(i, InternalErrorResponse)
         ELSE IF MissingFileName(FileName(query_params.val))
              THEN Return(i, MissingFileNameResponse)
              ELSE /\ pc' = [pc EXCEPT ![i] = "authorize"]
                   /\ UNCHANGED response
    /\ UNCHANGED <<presigned_response, calls>>
    /\ UNCHANGED <<clientVars, syncVars>>

(***************************************************************************)
(* lambda_handler, lines 73-80: create_presigned_post(bucket, key), the    *)
(* test for "error", and the test of the last-file flag.                   *)
(***************************************************************************)
Authorize(i, outcome) ==
    /\ pc[i] = "authorize"
    /\ LET qp == EventQueryParams(event[i]).val
           key == ObjectKey(ClientIdUuid(qp), FileSource(qp), FileName(qp))
           call == [op |-> "create_presigned_post",
                    bucket_name |-> S3_BUCKET_PLACEHOLDER, object_key |-> key]
           req == PresignedPostRequest(S3_BUCKET_PLACEHOLDER, key,
                                       DefaultExpiration)
           result == CreatePresignedPost(S3_BUCKET_PLACEHOLDER, key,
                                         DefaultExpiration, outcome)
       IN
         /\ calls' = [calls EXCEPT ![i] = @ \o
                         <<call, [op |-> "generate_presigned_post",
                                  request |-> req, outcome |-> outcome]>>]
         /\ IF outcome = "Exception"
            THEN /\ Return(i, InternalErrorResponse)
                 /\ UNCHANGED presigned_response
            ELSE /\ presigned_response' =
                        [presigned_response EXCEPT ![i] = result]
                 /\ IF IssuanceFailed(result)
                    THEN Return(i, UploadUrlFailedResponse)
                    ELSE IF IsLastFile(LastFileFlag(qp))
                         THEN /\ pc' = [pc EXCEPT ![i] = "dispatch"]
                              /\ UNCHANGED response
                         ELSE Return(i, SuccessResponse(result))
    /\ UNCHANGED event
    /\ UNCHANGED <<clientVars, syncVars>>

(***************************************************************************)
(* lambda_handler, lines 82-92, with start_generic_glue_workflow.  The     *)
(* function's first statement evaluates the global name botocto; when the  *)
(* name is not bound, NameError leaves the function before any request to  *)
(* the orchestrator and reaches the handler's except clause.               *)
(***************************************************************************)
\* ok: the orchestrator starts a run; ClientError: it rejects the request;
\* Exception: the call raises anything that is not a ClientError
GlueOutcomes == {"ok", "ClientError", "Exception"}

\* the request start_generic_glue_workflow sends to the orchestrator
StartWorkflowRunRequest(workflow_name, client_id) ==
    [Name |-> workflow_name, Parameters |-> [CLIENT_ID |-> client_id]]

Dispatch(i, outcome) ==
    /\ pc[i] = "dispatch"
    /\ LET qp == EventQueryParams(event[i]).val
           call == [op |-> "start_generic_glue_workflow",
                    workflow_name |-> GLUE_WORKFLOW_PLACEHOLDER,
                    client_id |-> ClientIdUuid(qp)]
           req == StartWorkflowRunRequest(GLUE_WORKFLOW_PLACEHOLDER,
                                          ClientIdUuid(qp))
       IN
         IF ~NameResolves("botocto")
         THEN /\ calls' = [calls EXCEPT ![i] = Append(@, call)]
              /\ Return(i, InternalErrorResponse)
         ELSE /\ calls' = [calls EXCEPT ![i] = @ \o
                              <<call, [op |-> "start_workflow_run",
                                       request |-> req, outcome |-> outcome]>>]
              /\ IF outcome = "Exception"
                 THEN Return(i, InternalErrorResponse)
                 ELSE Return(i, SuccessResponse(presigned_response[i]))
    /\ UNCHANGED <<event, presigned_response>>
    /\ UNCHANGED <<clientVars, syncVars>>

Next ==
    \E i \in Invocations :
        \/ \E ev \in Events : Validate(i, ev)
        \/ \E outcome \in IssuerOutcomes : Authorize(i, outcome)
        \/ \E outcome \in GlueOutcomes : Dispatch(i, outcome)

Spec == Init /\ [][Next]_vars

\* the same handler, given the events of RoutingEvents
NextRouting ==
    \E i \in Invocations :
        \/ \E ev \in RoutingEvents : Validate(i, ev)
        \/ \E outcome \in IssuerOutcomes : Authorize(i, outcome)
        \/ \E outcome \in GlueOutcomes : Dispatch(i, outcome)

SpecRouting == Init /\ [][NextRouting]_vars

(***************************************************************************)
(* Vocabulary of the properties.                                           *)
(***************************************************************************)
Done(i) == pc[i] = "done"

Started == {i \in Invocations : pc[i] # "idle"}

\* sub occurs in s
Contains(s, sub) ==
    \E k \in 1..(Len(s) - Len(sub) + 1) : SubSeq(s, k, k + Len(sub) - 1) = sub

StartsWith(s, pre) == Len(s) >= Len(pre) /\ SubSeq(s, 1, Len(pre)) = pre

\* the query parameters a started invocation was given; None counts as none
GivenParams(i) ==
    IF EventQueryParams(event[i]).some
    THEN EventQueryParams(event[i]).val
    ELSE EmptyDict

\* the request carries no file_name, or an empty one
FileNameMissing(i) ==
    "file_name" \notin DOMAIN GivenParams(i) \/ GivenParams(i)["file_name"] = ""

\* the request carries last_file=True
LastFileTrue(i) ==
    "last_file" \in DOMAIN GivenParams(i) /\ GivenParams(i)["last_file"] = "True"

\* the tenant of a request: the s3 parameter, or the sentinel without it
TenantOf(i) ==
    IF "s3" \in DOMAIN GivenParams(i)
    THEN GivenParams(i)["s3"]
    ELSE "CLIENT_ID_MISSING"

\* the source system of a request, or its default
SourceOf(i) ==
    IF "gestionale" \in DOMAIN GivenParams(i)
    THEN GivenParams(i)["gestionale"]
    ELSE "DEFAULT_SOURCE"

\* the issuer was asked and answered ok / did not answer ok
IssuerAnswered(i, outcomes) ==
    \E n \in 1..Len(calls[i]) :
        /\ calls[i][n].op = "generate_presigned_post"
        /\ calls[i][n].outcome \in outcomes

CredentialIssued(i) == IssuerAnswered(i, {"ok"})
CredentialRefused(i) == IssuerAnswered(i, {"ClientError", "Exception"})

\* the workflow-start requests an invocation has sent to the orchestrator
WorkflowStarts(i) == Len(CallsOf(i, "start_workflow_run"))

RECURSIVE TotalWorkflowStarts(_)
TotalWorkflowStarts(S) ==
    IF S = {}
    THEN 0
    ELSE LET i == CHOOSE x \in S : TRUE
         IN WorkflowStarts(i) + TotalWorkflowStarts(S \ {i})

\* a body that is a JSON object with the credential: url and fields, and no
\* message
CredentialBody(body) ==
    /\ StartsWith(body, "{\"url\": \"")
    /\ Contains(body, "\"fields\": {\"key\": \"")
    /\ ~Contains(body, "\"message\"")
    /\ ~Contains(body, "\"error\"")

\* a body that is a JSON object with a message and nothing of a credential
MessageOnlyBody(body) ==
    /\ StartsWith(body, "{\"message\": \"")
    /\ ~Contains(body, "\"url\"")
    /\ ~Contains(body, "\"fields\"")
    /\ ~Contains(body, "\"key\"")

(***************************************************************************)
(* C1.  For any N >= 1 invocations that all carry last_file=True for the   *)
(* same tenant and all obtain a credential, exactly one workflow-start     *)
(* request is dispatched in total.                                         *)
(***************************************************************************)
C1_ExactlyOneDispatch ==
    ( /\ Started # {}
      /\ \A i \in Started :
            Done(i) /\ LastFileTrue(i) /\ CredentialIssued(i)
      /\ \A i, j \in Started : TenantOf(i) = TenantOf(j) )
    => TotalWorkflowStarts(Started) = 1

(***************************************************************************)
(* C2.  Every request without a file_name (absent or empty, whatever else  *)
(* the event holds) is answered 400 with a message containing              *)
(* "Missing file_name".                                                    *)
(***************************************************************************)
C2_MissingFileNameIs400 ==
    \A i \in Invocations :
        (Done(i) /\ FileNameMissing(i))
        => /\ response[i].statusCode = 400
           /\ Contains(response[i].body, "Missing file_name")

(***************************************************************************)
(* C3.  Every request with a non-empty file_name whose credential was      *)
(* issued is answered 200 with the credential, with or without the last-   *)
(* file flag and whatever the workflow-start call does.                    *)
(***************************************************************************)
C3_IssuedCredentialIs200 ==
    \A i \in Invocations :
        (Done(i) /\ ~FileNameMissing(i) /\ CredentialIssued(i))
        => /\ response[i].statusCode = 200
           /\ CredentialBody(response[i].body)

\* the keys for which an invocation has asked create_presigned_post
RequestedKeys(i) ==
    { calls[i][n].object_key :
        n \in {m \in 1..Len(calls[i]) : calls[i][m].op = "create_presigned_post"} }

\* the names of the calls an invocation has made, in order
OpsOf(i) == [n \in 1..Len(calls[i]) |-> calls[i][n].op]

\* an invocation has called, or sent a request to, the workflow orchestrator
WorkflowCalled(i) ==
    \E n \in 1..Len(calls[i]) :
        calls[i][n].op \in {"start_generic_glue_workflow", "start_workflow_run"}

IsPrefix(s, t) == Len(s) <= Len(t) /\ s = SubSeq(t, 1, Len(s))

\* some step of lambda_handler is possible for invocation i
StepOf(i) ==
    \/ \E ev \in Events : Validate(i, ev)
    \/ \E outcome \in IssuerOutcomes : Authorize(i, outcome)
    \/ \E outcome \in GlueOutcomes : Dispatch(i, outcome)

(***************************************************************************)
(* C4.  The key for which lambda_handler asks the credential is exactly    *)
(* tenant + "/raw_data/" + source + "/" + file_name, with the sentinel for *)
(* an absent tenant and DEFAULT_SOURCE for an absent source; two requests  *)
(* with the same triple ask for the same key.                              *)
(***************************************************************************)
C4_KeyIsTenantSourceFile ==
    /\ \A i \in Invocations :
          \A k \in RequestedKeys(i) :
              k = TenantOf(i) \o "/raw_data/" \o SourceOf(i) \o "/"
                    \o GivenParams(i)["file_name"]
    /\ \A i, j \in Invocations :
          ( /\ TenantOf(i) = TenantOf(j)
            /\ SourceOf(i) = SourceOf(j)
            /\ DictGet(GivenParams(i), "file_name")
                 = DictGet(GivenParams(j), "file_name") )
          => \A k \in RequestedKeys(i), l \in RequestedKeys(j) : k = l

\* one request without tenant and source and one with both have asked for
\* their credentials
C4_Witness ==
    \E i, j \in Invocations :
        /\ RequestedKeys(i) = {"CLIENT_ID_MISSING/raw_data/DEFAULT_SOURCE/f.csv"}
        /\ DOMAIN GivenParams(i) \cap {"s3", "gestionale"} = {}
        /\ {"s3", "gestionale"} \subseteq DOMAIN GivenParams(j)
        /\ RequestedKeys(j) # {}

(***************************************************************************)
(* C5.  Whenever the credential issuer rejects the request, the response   *)
(* is 500 and its body holds a message only: no url, no fields.            *)
(***************************************************************************)
C5_RefusedCredentialIs500 ==
    \A i \in Invocations :
        (Done(i) /\ CredentialRefused(i))
        => /\ response[i].statusCode = 500
           /\ MessageOnlyBody(response[i].body)

\* a request with the last-file flag was refused its credential and answered
C5_Witness ==
    \E i \in Invocations :
        /\ Done(i)
        /\ LastFileTrue(i)
        /\ IssuerAnswered(i, {"ClientError"})
        /\ HasKey(presigned_response[i], "error")

(***************************************************************************)
(* C6.  Every invocation ends with exactly one of: 200 with the credential *)
(* (url and fields), or 400 or 500 with a message only; an invocation that *)
(* has not answered yet can always take its next step.                     *)
(***************************************************************************)
C6_ResponseIsCredentialOrMessage ==
    \A i \in Invocations :
        IF Done(i)
        THEN \/ /\ response[i].statusCode = 200
                /\ CredentialBody(response[i].body)
             \/ /\ response[i].statusCode \in {400, 500}
                /\ MessageOnlyBody(response[i].body)
        ELSE /\ response[i] = NoResponse
             /\ ENABLED StepOf(i)

\* one invocation answered 200 and another 500
C6_Witness ==
    \E i, j \in Invocations :
        /\ Done(i) /\ response[i].statusCode = 200
        /\ Done(j) /\ response[j].statusCode = 500

(***************************************************************************)
(* C7.  Keys are never reused across tenants: two requests with different  *)
(* tenants never ask for the same key, whatever their source system and    *)
(* file_name.                                                              *)
(***************************************************************************)
C7_KeysDifferAcrossTenants ==
    \A i, j \in Invocations :
        TenantOf(i) # TenantOf(j)
        => RequestedKeys(i) \cap RequestedKeys(j) = {}

(***************************************************************************)
(* C8.  A request whose last-file flag is absent or is anything but "True" *)
(* dispatches no workflow start; with a file_name and an issued credential *)
(* it is answered 200 with the credential.                                 *)
(***************************************************************************)
C8_NoDispatchWithoutLastFlag ==
    \A i \in Invocations :
        ~LastFileTrue(i)
        => /\ ~WorkflowCalled(i)
           /\ WorkflowStarts(i) = 0
           /\ (Done(i) /\ ~FileNameMissing(i) /\ CredentialIssued(i))
              => /\ response[i].statusCode = 200
                 /\ CredentialBody(response[i].body)

\* a request with last_file=true and one without the flag were answered
\* after their credentials were issued
C8_Witness ==
    \E i, j \in Invocations :
        /\ Done(i) /\ CredentialIssued(i)
        /\ DictGet(GivenParams(i), "last_file") = Some("true")
        /\ Done(j) /\ CredentialIssued(j)
        /\ "last_file" \notin DOMAIN GivenParams(j)

(***************************************************************************)
(* C9.  Within one request the steps are ordered validate, authorize,      *)
(* dispatch: a request rejected for a missing file_name calls neither the  *)
(* issuer nor the workflow start, and a request whose credential was       *)
(* refused calls no workflow start, even with last_file=True.              *)
(***************************************************************************)
C9_ValidateAuthorizeDispatch ==
    \A i \in Invocations :
        /\ IsPrefix(OpsOf(i), <<"create_presigned_post",
                                "generate_presigned_post",
                                "start_generic_glue_workflow",
                                "start_workflow_run">>)
        /\ (FileNameMissing(i) \/ response[i].statusCode = 400)
           => calls[i] = <<>>
        /\ CredentialRefused(i) => ~WorkflowCalled(i)
        /\ WorkflowCalled(i) => CredentialIssued(i)

\* a request was rejected for its empty file_name, and a last-file request
\* was answered after its credential was refused
C9_Witness ==
    \E i, j \in Invocations :
        /\ Done(i) /\ response[i].statusCode = 400
        /\ DictGet(GivenParams(i), "file_name") = Some("")
        /\ Done(j) /\ LastFileTrue(j) /\ CredentialRefused(j)

(***************************************************************************)
(* C10.  When create_presigned_post(bucket, object_key) succeeds, what it  *)
(* returns holds a url and fields whose key is the requested object_key:   *)
(* the credential was asked of the issuer for that bucket and that key     *)
(* and names no other.                                                     *)
(***************************************************************************)
C10_CredentialIsForRequestedKey ==
    \A i \in Invocations :
        \A n \in 1..(Len(calls[i]) - 1) :
            ( /\ calls[i][n].op = "create_presigned_post"
              /\ calls[i][n + 1].op = "generate_presigned_post"
              /\ calls[i][n + 1].outcome = "ok" )
            => LET credential == presigned_response[i]
                   asked == calls[i][n]
               IN /\ HasKey(credential, "url")
                  /\ HasKey(credential, "fields")
                  /\ Lookup(credential, "fields")
                       = Obj(<<Item("key", Str(asked.object_key))>>)
                  /\ calls[i][n + 1].request.Key = asked.object_key
                  /\ calls[i][n + 1].request.Bucket = asked.bucket_name

\* create_presigned_post has returned a credential for a tenant's key
C10_Witness ==
    \E i \in Invocations :
        /\ CredentialIssued(i)
        /\ "s3" \in DOMAIN GivenParams(i)
        /\ HasKey(presigned_response[i], "fields")

(***************************************************************************)
(* The client, src/src/client/send_file.py: send_files_to_api.             *)
(*                                                                         *)
(* The run is one action.  Its first statement evaluates the global name   *)
(* listdir; when the name is not bound, NameError (which the except clause *)
(* for FileNotFoundError does not catch) ends the run before any file is   *)
(* looked at.                                                              *)
(***************************************************************************)
\* bounds of the client's inputs
MaxLocalFiles == 2

\* the names bound at module level by the imports, assignments and defs
ClientModuleGlobals ==
    {"requests", "os", "join", "isfile", "expanduser", "pd", "pyodbc",
     "List", "Dict", "Tuple", "Callable", "ClientError",
     "DB_HOST", "DB_PORT", "DB_NAME", "DB_USER", "DB_PASS",
     "API_GATEWAY_ENDPOINT", "API_KEY", "CLIENT_ID", "GESTIONALE_NAME",
     "HOME_DIR", "FOLDER_PATH", "_execute_and_save",
     "get_extraction_functions", "extract_all_data", "send_files_to_api"}

ClientNameResolves(name) == name \in ClientModuleGlobals

API_GATEWAY_ENDPOINT == "https://api.example.com/v1/presigned-urls"
CLIENT_ID == "4097bdae-065c-4a1f-bcce-b0b4cdde7e09_SAMPLE"
GESTIONALE_NAME == "Zucchetti_System"

\* the files extraction may have left in FOLDER_PATH
LocalFileNames == {"a.csv", "b.csv", "c.csv"}

\* the orders in which listdir may return the files of a folder
Listings(S) ==
    { q \in [1..Cardinality(S) -> S] :
        \A m, n \in 1..Cardinality(S) : m # n => q[m] # q[n] }

\* last_file = 'True' if current_file_count == 1 else 'False', for the
\* file at position i (from 0) of total_files
LastFileValue(total_files, i) ==
    IF total_files - i = 1 THEN "True" ELSE "False"

\* the url of the gateway request for file f
GatewayUrl(f, last_file) ==
    API_GATEWAY_ENDPOINT \o "?"
        \o "s3=" \o CLIENT_ID \o "&"
        \o "file_name=" \o f \o "&"
        \o "gestionale=" \o GESTIONALE_NAME \o "/raw_data&"
        \o "last_file=" \o last_file

\* what may happen to one file: requests.get raises; the gateway answers
\* another status than 200; reading or posting the file raises; the storage
\* answers another status than 204; the storage answers 204
ClientFileOutcomes ==
    {"get_raises", "status_not_200", "upload_raises", "status_not_204",
     "status_204"}

\* one iteration of the loop, lines 131-178, on the logs of the run
SendFile(acc, f, i, total_files, outcome) ==
    LET url == GatewayUrl(f, LastFileValue(total_files, i))
        got == [url |-> url,
                result |-> CASE outcome = "get_raises" -> "raised"
                             [] outcome = "status_not_200" -> "not_200"
                             [] OTHER -> "200"]
        posted == [file |-> f,
                   result |-> CASE outcome = "upload_raises" -> "raised"
                                [] outcome = "status_not_204" -> "not_204"
                                [] OTHER -> "204"]
    IN [sent |-> Append(acc.sent, got),
        up |-> IF outcome \in {"get_raises", "status_not_200"}
               THEN acc.up
               ELSE Append(acc.up, posted),
        gone |-> IF outcome = "status_204"
                 THEN Append(acc.gone, f)
                 ELSE acc.gone]

RECURSIVE SendLoop(_, _, _, _)
\* the loop over files_to_upload from position i (from 0) on
SendLoop(acc, files_to_upload, i, outcomes) ==
    IF i >= Len(files_to_upload)
    THEN acc
    ELSE SendLoop(SendFile(acc, files_to_upload[i + 1], i,
                           Len(files_to_upload), outcomes[i + 1]),
                  files_to_upload, i + 1, outcomes)

SendFilesToApi ==
    /\ client_pc = "idle"
    /\ IF ~ClientNameResolves("listdir")
       THEN /\ client_pc' = "NameError"
            /\ UNCHANGED <<local_files, requests_sent, uploads, removed>>
       ELSE IF ~folder_exists \/ local_files = {}
            THEN /\ client_pc' = "returned"
                 /\ UNCHANGED <<local_files, requests_sent, uploads, removed>>
            ELSE \E files_to_upload \in Listings(local_files) :
                 \E outcomes \in [1..Len(files_to_upload) -> ClientFileOutcomes] :
                    LET run == SendLoop([sent |-> <<>>, up |-> <<>>,
                                         gone |-> <<>>],
                                        files_to_upload, 0, outcomes)
                    IN /\ client_pc' = "done"
                       /\ requests_sent' = run.sent
                       /\ uploads' = run.up
                       /\ removed' = run.gone
                       /\ local_files' =
                            local_files \ {run.gone[n] : n \in 1..Len(run.gone)}
    /\ UNCHANGED <<folder_exists, gatewayVars, syncVars>>

\* a folder that may be missing, or hold up to MaxLocalFiles files
InitClient ==
    /\ GatewayInit
    /\ SyncAbsent
    /\ client_pc = "idle"
    /\ folder_exists \in BOOLEAN
    /\ local_files \in {S \in SUBSET LocalFileNames :
                          /\ Cardinality(S) <= MaxLocalFiles
                          /\ ~folder_exists => S = {}}
    /\ requests_sent = <<>>
    /\ uploads = <<>>
    /\ removed = <<>>

\* the client and the gateway it is configured for
NextClient ==
    \/ SendFilesToApi
    \/ \E i \in Invocations :
          \/ \E ev \in Events : Validate(i, ev)
          \/ \E outcome \in IssuerOutcomes : Authorize(i, outcome)
          \/ \E outcome \in GlueOutcomes : Dispatch(i, outcome)

SpecClient == InitClient /\ [][NextClient]_vars

\* the files the folder held when the run began
FolderAtStart == local_files \cup {removed[n] : n \in 1..Len(removed)}

\* the run of send_files_to_api has ended, by return or by exception
ClientEnded == client_pc # "idle"

\* the requests of the run that carry last_file=True
LastFileRequests ==
    {n \in 1..Len(requests_sent) :
        Contains(requests_sent[n].url, "last_file=True")}

\* a gateway request was sent for file f
RequestedFor(f) ==
    \E n \in 1..Len(requests_sent) :
        Contains(requests_sent[n].url, "file_name=" \o f \o "&")

\* the storage answered 204 to an upload of file f
Uploaded204(f) ==
    \E n \in 1..Len(uploads) : uploads[n] = [file |-> f, result |-> "204"]

(***************************************************************************)
(* C11.  In a run of the client against the gateway, a workflow start is   *)
(* dispatched only when every file of the run has already been uploaded.   *)
(***************************************************************************)
C11_WorkflowStartAfterUploads ==
    TotalWorkflowStarts(Invocations) > 0
    => \A f \in FolderAtStart : Uploaded204(f)

\* no workflow start is dispatched in any state, and nothing is uploaded
C11_NothingDispatchedNothingUploaded ==
    TotalWorkflowStarts(Invocations) = 0 /\ uploads = <<>>

(***************************************************************************)
(* C12.  In every run over a folder with at least one file, exactly one    *)
(* gateway request carries last_file=True: the last request of the run,    *)
(* sent after one request for each other file; with no file, no request    *)
(* is sent.                                                                *)
(***************************************************************************)
C12_ExactlyOneLastFileRequest ==
    ClientEnded
    => /\ Len(requests_sent) = Cardinality(FolderAtStart)
       /\ \A f \in FolderAtStart : RequestedFor(f)
       /\ LastFileRequests
            = IF FolderAtStart = {} THEN {} ELSE {Len(requests_sent)}

MaxBucketObjects == 3

\* the job arguments S3_TARGET_BUCKET and CLIENT_ID
S3_BUCKET_NAME == "clean-bucket"
TARGET_CLIENT_ID == "T1"
ONEDRIVE_ROOT_PATH == "Exports"

UpperCase == "ABCDEFGHIJKLMNOPQRSTUVWXYZ"
LowerCase == "abcdefghijklmnopqrstuvwxyz"

RECURSIVE Lower(_)
\* str.lower()
Lower(str) ==
    IF str = ""
    THEN ""
    ELSE LET c == SubSeq(str, 1, 1)
             at == {n \in 1..Len(UpperCase) : SubSeq(UpperCase, n, n) = c}
         IN (IF at = {}
             THEN c
             ELSE LET n == CHOOSE m \in at : TRUE IN SubSeq(LowerCase, n, n))
            \o Lower(SubSeq(str, 2, Len(str)))

CLEAN_PREFIX == "clean_data/" \o Lower(TARGET_CLIENT_ID)
HISTORY_PREFIX == "historical_clean_data/" \o Lower(TARGET_CLIENT_ID)

\* datetime.now().strftime("%Y_%m_%d_%H"), taken once per run
timestamp == "2026_11_04_02"

\* the keys the bucket may hold, in the order the storage lists them
AllKeys ==
    <<"clean_data/t1/", "clean_data/t1/a.csv", "clean_data/t1/b.csv",
      "clean_data/t1/sub/a.csv", "raw_data/t1/a.csv">>

\* list(s3_bucket.objects.filter(Prefix=CLEAN_PREFIX))
ObjectsWithPrefix(keys, prefix) ==
    SelectSeq(AllKeys, LAMBDA k : k \in keys /\ StartsWith(k, prefix))

\* str.endswith
EndsWith(str, suffix) ==
    /\ Len(str) >= Len(suffix)
    /\ SubSeq(str, Len(str) - Len(suffix) + 1, Len(str)) = suffix

\* os.path.basename: what follows the last "/"
Basename(path) ==
    LET slashes == {n \in 1..Len(path) : SubSeq(path, n, n) = "/"}
    IN IF slashes = {}
       THEN path
       ELSE LET last == CHOOSE n \in slashes : \A m \in slashes : m <= n
            IN SubSeq(path, last + 1, Len(path))

\* the test of the upload's status read as `== 200 or 201`, always true
UploadSucceeded_AlwaysTruthy(status_code) == TRUE

\* `if response.status_code in [200, 201]`
UploadSucceeded(status_code) == status_code \in {200, 201}

\* the status codes the file-sync service may answer
OneDriveStatusCodes == {200, 201, 500}

onedrive_base_url ==
    "https://graph.microsoft.com/v1.0/me/drive/root:/" \o ONEDRIVE_ROOT_PATH

UploadUrl(file_name) == onedrive_base_url \o "/" \o file_name \o ":/content"

HistoryKey(file_name) ==
    HISTORY_PREFIX \o "/" \o timestamp \o "/" \o file_name

\* lines 82-94: authenticate, list the clean files.  An exception of
\* get_authenticated_headers leaves process_clean_files.
SyncStart(auth_ok) ==
    /\ sync_pc = "idle"
    /\ IF ~auth_ok
       THEN /\ sync_pc' = "auth_failed"
            /\ UNCHANGED <<files, file_index>>
       ELSE LET listed == ObjectsWithPrefix(bucket_keys, CLEAN_PREFIX)
            IN /\ files' = listed
               /\ file_index' = 1
               /\ sync_pc' = IF listed = <<>> THEN "done" ELSE "loop"
    /\ UNCHANGED <<bucket_keys, sync_ops, gatewayVars, clientVars>>

\* lines 96-130: one iteration of the loop.  get_ok: the object is read;
\* put_ok: requests.put returns, with status_code; copy_ok: the copy is made
SyncFile(get_ok, put_ok, status_code, copy_ok) ==
    /\ sync_pc = "loop"
    /\ LET file_full_key == files[file_index]
           file_name == Basename(file_full_key)
           get == [op |-> "get", key |-> file_full_key, raised |-> ~get_ok]
           put == [op |-> "put", key |-> file_full_key,
                   url |-> UploadUrl(file_name), raised |-> ~put_ok,
                   status_code |-> IF put_ok THEN status_code ELSE 0]
           copy == [op |-> "copy",
                    source |-> [Bucket |-> S3_BUCKET_NAME,
                                Key |-> file_full_key],
                    history_key |-> HistoryKey(file_name),
                    raised |-> ~copy_ok]
       IN IF EndsWith(file_full_key, "/")
          THEN UNCHANGED <<sync_ops, bucket_keys>>
          ELSE IF ~get_ok
          THEN /\ sync_ops' = Append(sync_ops, get)
               /\ UNCHANGED bucket_keys
          ELSE IF ~put_ok \/ ~UploadSucceeded(status_code)
          THEN /\ sync_ops' = sync_ops \o <<get, put>>
               /\ UNCHANGED bucket_keys
          ELSE /\ sync_ops' = sync_ops \o <<get, put, copy>>
               /\ bucket_keys' = IF copy_ok
                                 THEN bucket_keys \cup {copy.history_key}
                                 ELSE bucket_keys
    /\ file_index' = file_index + 1
    /\ sync_pc' = IF file_index = Len(files) THEN "done" ELSE "loop"
    /\ UNCHANGED <<files, gatewayVars, clientVars>>

\* a bucket with up to MaxBucketObjects objects
InitSync ==
    /\ GatewayInit
    /\ ClientAbsent
    /\ sync_pc = "idle"
    /\ bucket_keys \in {S \in SUBSET {AllKeys[n] : n \in 1..Len(AllKeys)} :
                          Cardinality(S) <= MaxBucketObjects}
    /\ files = <<>>
    /\ file_index = 0
    /\ sync_ops = <<>>

NextSync ==
    \/ \E auth_ok \in BOOLEAN : SyncStart(auth_ok)
    \/ \E get_ok, put_ok, copy_ok \in BOOLEAN :
          \E status_code \in OneDriveStatusCodes :
             SyncFile(get_ok, put_ok, status_code, copy_ok)

SpecSync == InitSync /\ [][NextSync]_vars

\* the positions of the calls of one kind made for one key
SyncOpsAt(op, key) ==
    {n \in 1..Len(sync_ops) :
        /\ sync_ops[n].op = op
        /\ IF op = "copy"
           THEN sync_ops[n].source.Key = key
           ELSE sync_ops[n].key = key}

\* the upload of the key was answered 200 or 201
UploadAccepted(key) ==
    \E n \in SyncOpsAt("put", key) :
        ~sync_ops[n].raised /\ sync_ops[n].status_code \in {200, 201}

\* the keys of the run's listing, as a set
ListedKeys == {files[n] : n \in 1..Len(files)}

(***************************************************************************)
(* C14.  A clean file is copied to the archive only after its upload       *)
(* returned 200 or 201; a file whose upload failed or raised is never      *)
(* archived; a failure on one file does not keep the remaining files from  *)
(* being processed; keys ending in "/" are neither uploaded nor archived.  *)
(***************************************************************************)
C14_ArchiveOnlyAfterUpload ==
    /\ \A n \in 1..Len(sync_ops) :
          sync_ops[n].op = "copy"
          => /\ n > 1
             /\ sync_ops[n - 1].op = "put"
             /\ sync_ops[n - 1].key = sync_ops[n].source.Key
             /\ ~sync_ops[n - 1].raised
             /\ sync_ops[n - 1].status_code \in {200, 201}
    /\ \A key \in ListedKeys :
          /\ ~UploadAccepted(key) => SyncOpsAt("copy", key) = {}
          /\ EndsWith(key, "/")
             => /\ SyncOpsAt("get", key) = {}
                /\ SyncOpsAt("put", key) = {}
                /\ SyncOpsAt("copy", key) = {}
          /\ (sync_pc = "done" /\ ~EndsWith(key, "/"))
             => Cardinality(SyncOpsAt("get", key)) = 1
    /\ \A key \in bucket_keys :
          StartsWith(key, HISTORY_PREFIX)
          => \E n \in 1..Len(sync_ops) :
                /\ sync_ops[n].op = "copy"
                /\ sync_ops[n].history_key = key
                /\ ~sync_ops[n].raised
                /\ UploadAccepted(sync_ops[n].source.Key)

\* a finished run over a folder marker and two files: the upload of the
\* first file failed or raised, the second was uploaded and archived
C14_Witness ==
    /\ sync_pc = "done"
    /\ \E marker, first, second \in ListedKeys :
          /\ EndsWith(marker, "/")
          /\ \E m \in SyncOpsAt("put", first), n \in SyncOpsAt("copy", second) :
                /\ m < n
                /\ sync_ops[m].raised \/ sync_ops[m].status_code = 500
                /\ ~sync_ops[n].raised
                /\ sync_ops[n].history_key \in bucket_keys

====
